---- MODULE Spec2Model ----
(***************************************************************************)
(* Model of the chunk validation and diagnostics scripts:                  *)
(*   scripts/validate_chunks.py   (parse_frontmatter, validate_file)       *)
(*   scripts/diagnose_chunks.py   (extract_chunks, load_document, the four *)
(*                                 heuristics, run_diagnostics)            *)
(* A chunk id is a sequence of one-character strings, so that the id       *)
(* grammar and the category prefix are computed, not assumed.              *)
(***************************************************************************)
EXTENDS Integers, Sequences, FiniteSets, TLC

VARIABLES
    doc,             \* the document under validation (input text, abstracted)
    pc,              \* position of validate_file
    frontmatter,     \* result of parse_frontmatter: the parsed header
    lines,           \* body_content.split('\n'): each line is its markers
    fm_end_line,     \* line number right after the header
    k,               \* 1-based cursor of the header loop (the code's i + 1)
    fm_chunks,       \* dict id -> chunk_def, as a sequence in insertion order
    all_chunk_ids,   \* set of ids seen so far in the header
    errors,          \* list of ValidationError
    ln,              \* 1-based cursor into lines
    mi,              \* 1-based cursor into the matches of the current line
    body_chunk_ids,  \* dict id -> first line number, in insertion order
    open_chunks,     \* stack of (id, line)
    dpc,             \* position of run_diagnostics
    run,             \* which run of run_diagnostics on the document: 1 or 2
    body_chunks,     \* load_document: dict id -> content, in insertion order
    chunks,          \* load_document: list of ChunkData
    issues,          \* run_diagnostics: list of Issue
    stats,           \* run_diagnostics: the statistics of the report
    first_report     \* the DiagnosticReport returned by the first run

\* the variables of validate_file and those of run_diagnostics
vvars == <<pc, frontmatter, lines, fm_end_line, k, fm_chunks,
           all_chunk_ids, errors, ln, mi, body_chunk_ids, open_chunks>>

dvars == <<dpc, run, body_chunks, chunks, issues, stats, first_report>>

vars == <<doc, vvars, dvars>>

----------------------------------------------------------------------------
(* Bounds of the explored inputs *)
MaxDefs == 3
MaxRichDefs == 2
MaxDeps == 2
MaxLines == 3
MaxLineLen == 2
MaxChunks == 2
MaxBodyTokens == 5
MaxSimilar == 3
MaxMalformed == 2
MaxContextWords == 52
MaxTagged == 5
MaxNamed == 4

----------------------------------------------------------------------------
(* Generic helpers *)
SeqsUpTo(S, n) == UNION {[1..m -> S] : m \in 0..n}

Range(s) == {s[j] : j \in 1..Len(s)}

RECURSIVE Flatten(_)
Flatten(ss) == IF ss = <<>> THEN <<>> ELSE Head(ss) \o Flatten(Tail(ss))

Last(s) == s[Len(s)]

ButLast(s) == SubSeq(s, 1, Len(s) - 1)

----------------------------------------------------------------------------
(* Chunk ids and the id grammar  ^[a-z]+:[a-z0-9-]+$ *)
LowerSeq == <<"a", "b", "c", "d", "e", "f", "g", "h", "i", "j", "k", "l", "m",
             "n", "o", "p", "q", "r", "s", "t", "u", "v", "w", "x", "y", "z">>
UpperSeq == <<"A", "B", "C", "D", "E", "F", "G", "H", "I", "J", "K", "L", "M",
             "N", "O", "P", "Q", "R", "S", "T", "U", "V", "W", "X", "Y", "Z">>
DigitSeq == <<"0", "1", "2", "3", "4", "5", "6", "7", "8", "9">>

Lower == {LowerSeq[j] : j \in 1..Len(LowerSeq)}
Upper == {UpperSeq[j] : j \in 1..Len(UpperSeq)}
Digit == {DigitSeq[j] : j \in 1..Len(DigitSeq)}
TopicChar == Lower \cup Digit \cup {"-"}

idAX == <<"a", ":", "x">>
idBY == <<"b", ":", "y">>
idMissing == <<"m", ":", "x">>
idAY == <<"a", ":", "y">>
idBad == <<"Q">>
idUpper == <<"b", ":", "Q">>
NoId == <<>>

ID_PATTERN_match(s) ==
    \E p \in 2..(Len(s) - 1) :
        /\ s[p] = ":"
        /\ \A j \in 1..(p - 1) : s[j] \in Lower
        /\ \A j \in (p + 1)..Len(s) : s[j] \in TopicChar

----------------------------------------------------------------------------
(* Text.  A string is kept as the sequence of its whitespace-separated     *)
(* words, a word as the sequence of its characters; str.split() is then    *)
(* the sequence itself, and a ' ' join is concatenation.                   *)
Letters == Lower \cup Upper
WordChar == Letters \cup Digit \cup {"_"}

\* the characters in code point order, for sorted()
CodePoints == <<"\"", "-">> \o DigitSeq \o <<":", "<", "=", ">">> \o UpperSeq
              \o <<"[", "]", "_">> \o LowerSeq

Ord(c) == CHOOSE j \in 1..Len(CodePoints) : CodePoints[j] = c

\* str.lower()
LowerChar(c) ==
    IF c \in Upper
    THEN LowerSeq[CHOOSE j \in 1..Len(UpperSeq) : UpperSeq[j] = c]
    ELSE c

LowerWord(w) == [j \in 1..Len(w) |-> LowerChar(w[j])]

LowerText(t) == [j \in 1..Len(t) |-> LowerWord(t[j])]

\* the end of the maximal run of letters that starts at s
RECURSIVE RunEnd(_, _)
RunEnd(w, s) == IF s < Len(w) /\ w[s + 1] \in Letters THEN RunEnd(w, s + 1) ELSE s

\* re.findall(r'\b[a-zA-Z]{3,}\b', w) from position s on: the maximal runs
\* of letters, at least 3 long, with a word boundary on both sides
RECURSIVE WordTokens(_, _)
WordTokens(w, s) ==
    IF s > Len(w) THEN <<>>
    ELSE IF w[s] \notin Letters THEN WordTokens(w, s + 1)
    ELSE LET e == RunEnd(w, s)
             boundary_before == s = 1 \/ w[s - 1] \notin WordChar
             boundary_after == e = Len(w) \/ w[e + 1] \notin WordChar
         IN (IF e - s + 1 >= 3 /\ boundary_before /\ boundary_after
             THEN <<SubSeq(w, s, e)>>
             ELSE <<>>)
            \o WordTokens(w, e + 1)

\* tokenize(text), lines 135-137
tokenize(t) == Flatten([j \in 1..Len(t) |-> WordTokens(LowerWord(t[j]), 1)])

\* u < v as Python compares strings
StrLess(u, v) ==
    \E p \in 1..(Len(v)) :
        /\ p <= Len(u) + 1
        /\ \A j \in 1..(p - 1) : u[j] = v[j]
        /\ (p = Len(u) + 1 \/ Ord(u[p]) < Ord(v[p]))

\* sorted(S) for a set of strings
RECURSIVE sorted(_)
sorted(S) ==
    IF S = {} THEN <<>>
    ELSE LET m == CHOOSE x \in S : \A y \in S \ {x} : StrLess(x, y)
         IN <<m>> \o sorted(S \ {m})

FirstN(s, n) == SubSeq(s, 1, IF Len(s) < n THEN Len(s) ELSE n)

Repeat(w, n) == [j \in 1..n |-> w]

wApi == <<"a", "p", "i">>
wSql == <<"s", "q", "l">>
wAPI == <<"A", "P", "I">>
wDb == <<"d", "b">>
wOf == <<"o", "f">>
wPy == <<"p", "y">>
wSqlApi == <<"s", "q", "l", "-", "a", "p", "i">>

----------------------------------------------------------------------------
(* ValidationError(line, message, severity); the message is kept as its    *)
(* kind and the values formatted into it.                                  *)
ValidationError(line, kind, severity, id, ref, refLine) ==
    [line |-> line, kind |-> kind, severity |-> severity,
     id |-> id, ref |-> ref, refLine |-> refLine]

----------------------------------------------------------------------------
(* Header entries (chunk_def): obj is the type of the entry's value, a    *)
(* dict, None or a str without "id" in it; keys is the set of keys present *)
(* in a dict.                                                              *)
StrDep(id) == [str |-> TRUE, v |-> id]
NonStrDep == [str |-> FALSE, v |-> <<"7">>]

BaseDef ==
    [obj |-> "dict", keys |-> {}, id |-> NoId, context |-> <<>>, tags |-> <<>>,
     priority |-> "", deps_is_list |-> TRUE, dependencies |-> <<>>,
     created_at |-> "", version |-> [is_int |-> TRUE, n |-> 1],
     type |-> "", content_path |-> [exists |-> FALSE]]

ValidDates == {"2026-01-01"}

validate_temporal_fields(chunk_def, chunk_id, line_num) ==
    (IF "created_at" \in chunk_def.keys /\ chunk_def.created_at \notin ValidDates
     THEN <<ValidationError(line_num, "bad_created_at", "error", chunk_id, <<>>, 0)>>
     ELSE <<>>)
    \o
    (IF "version" \in chunk_def.keys
        /\ (~chunk_def.version.is_int \/ chunk_def.version.n < 1)
     THEN <<ValidationError(line_num, "bad_version", "error", chunk_id, <<>>, 0)>>
     ELSE <<>>)

valid_priorities == {"high", "medium", "low"}

\* variant: an unknown dependency is reported with severity error
RECURSIVE DependencyErrors_AsError(_, _, _, _)
DependencyErrors_AsError(deps, chunk_id, line_num, ids) ==
    IF deps = <<>> THEN <<>>
    ELSE LET dep == Head(deps) IN
         (IF ~dep.str
          THEN <<ValidationError(line_num, "dep_not_string", "error", chunk_id, dep.v, 0)>>
          ELSE IF dep.v \notin ids /\ dep.v # chunk_id
          THEN <<ValidationError(line_num, "dep_not_found", "error", chunk_id, dep.v, 0)>>
          ELSE <<>>)
         \o DependencyErrors_AsError(Tail(deps), chunk_id, line_num, ids)

\* lines 83-95: the loop over chunk_def['dependencies']
RECURSIVE DependencyErrors(_, _, _, _)
DependencyErrors(deps, chunk_id, line_num, ids) ==
    IF deps = <<>> THEN <<>>
    ELSE LET dep == Head(deps) IN
         (IF ~dep.str
          THEN <<ValidationError(line_num, "dep_not_string", "error", chunk_id, dep.v, 0)>>
          ELSE IF dep.v \notin ids /\ dep.v # chunk_id
          THEN <<ValidationError(line_num, "dep_not_found", "warning", chunk_id, dep.v, 0)>>
          ELSE <<>>)
         \o DependencyErrors(Tail(deps), chunk_id, line_num, ids)

validate_agentic_fields(chunk_def, chunk_id, line_num, ids) ==
    (IF "priority" \in chunk_def.keys /\ chunk_def.priority \notin valid_priorities
     THEN <<ValidationError(line_num, "bad_priority", "error", chunk_id, <<>>, 0)>>
     ELSE <<>>)
    \o
    (IF "dependencies" \in chunk_def.keys
     THEN IF ~chunk_def.deps_is_list
          THEN <<ValidationError(line_num, "deps_not_list", "error", chunk_id, <<>>, 0)>>
          ELSE DependencyErrors(chunk_def.dependencies, chunk_id, line_num, ids)
     ELSE <<>>)

valid_types == {"text", "image", "video", "audio"}

validate_multimodal_fields(chunk_def, chunk_id, line_num) ==
    (IF "type" \in chunk_def.keys /\ chunk_def.type \notin valid_types
     THEN <<ValidationError(line_num, "bad_type", "error", chunk_id, <<>>, 0)>>
     ELSE <<>>)
    \o
    (IF "content_path" \in chunk_def.keys
     THEN IF "type" \in chunk_def.keys /\ chunk_def.type \in {"image", "video", "audio"}
          THEN IF ~chunk_def.content_path.exists
               THEN <<ValidationError(line_num, "content_path_missing", "warning", chunk_id, <<>>, 0)>>
               ELSE <<>>
          ELSE <<ValidationError(line_num, "content_path_misuse", "warning", chunk_id, <<>>, 0)>>
     ELSE <<>>)

----------------------------------------------------------------------------
(* Body lines: a line is the sequence of its tokens, left to right: open  *)
(* markers <Chunk id="...">, close markers </Chunk>, and words of text     *)
(* (a word is a sequence of characters without whitespace).                *)
OpenMarker(id) == [kind |-> "open", id |-> id, word |-> <<>>]
CloseMarker == [kind |-> "close", id |-> NoId, word |-> <<>>]
Word(w) == [kind |-> "word", id |-> NoId, word |-> w]

IsOpen(m) == m.kind = "open"
IsClose(m) == m.kind = "close"

\* open_pattern.finditer(line): the open markers of the line, in order
OpenMatches(line) == SelectSeq(line, IsOpen)

\* close_pattern.finditer(line): the close markers of the line
CloseMatches(line) == SelectSeq(line, IsClose)

EmptyLine == <<>>

----------------------------------------------------------------------------
(* dicts kept in insertion order *)
Keys(d) == {d[j].id : j \in 1..Len(d)}

Lookup(d, id) == d[CHOOSE j \in 1..Len(d) : d[j].id = id]

----------------------------------------------------------------------------
(* Input documents.  fm is the shape of the header block:                  *)
(*   "absent"        the text does not start with the delimiter            *)
(*   "unterminated"  no closing delimiter line                             *)
(*   "yamlerror"     the delimited text is not valid YAML                  *)
(*   "null"          the delimited text is empty (safe_load gives None)    *)
(*   "mapping"       a non-empty mapping, with or without a 'chunks' key   *)
(*   "emptymapping"  the empty mapping {}                                  *)
(*   "str", "list"   a non-empty string or list; has_chunks tells whether  *)
(*                   'chunks' in frontmatter holds of it                   *)
(*   "int"           a non-zero number                                     *)
(* hlines is the number of lines between the two delimiter lines, and      *)
(* chunks_obj the type of the value of the 'chunks' key: a list or None.   *)
Ctx == <<wApi, wSql>>

DefA == [BaseDef EXCEPT !.keys = {"id", "context"}, !.id = idAX, !.context = Ctx]
DefB == [BaseDef EXCEPT !.keys = {"id", "context"}, !.id = idBY, !.context = Ctx]

SimpleDefs ==
    { BaseDef,
      DefA,
      [DefA EXCEPT !.context = <<>>],
      [DefB EXCEPT !.keys = {"id"}, !.context = <<>>] }

DepItems == {StrDep(idAX), StrDep(idBY), StrDep(idMissing), NonStrDep}

\* an entry with each dependency list of up to MaxDeps items
DepDefs ==
    { [DefA EXCEPT !.keys = @ \cup {"dependencies"}, !.dependencies = d] :
          d \in SeqsUpTo(DepItems, MaxDeps) }

AgenticDefs ==
    { [DefA EXCEPT !.keys = @ \cup {"dependencies"}, !.dependencies = <<i>>] :
          i \in DepItems }
    \cup
    { [DefA EXCEPT !.keys = @ \cup {"dependencies"}, !.deps_is_list = FALSE],
      [DefA EXCEPT !.keys = @ \cup {"priority"}, !.priority = "high"],
      [DefA EXCEPT !.keys = @ \cup {"priority"}, !.priority = "urgent"],
      DefB,
      [DefB EXCEPT !.keys = @ \cup {"dependencies"}, !.dependencies = <<StrDep(idAX)>>],
      [DefB EXCEPT !.keys = @ \cup {"dependencies"}, !.dependencies = <<StrDep(idMissing)>>] }

ExtensionDefs ==
    { [DefA EXCEPT !.keys = @ \cup {"created_at"}, !.created_at = "2026-01-01"],
      [DefA EXCEPT !.keys = @ \cup {"created_at"}, !.created_at = "tomorrow"],
      [DefA EXCEPT !.keys = @ \cup {"version"}, !.version = [is_int |-> TRUE, n |-> 0]],
      [DefA EXCEPT !.keys = @ \cup {"version"}, !.version = [is_int |-> FALSE, n |-> 2]],
      [DefB EXCEPT !.keys = @ \cup {"type"}, !.type = "pdf"],
      [DefB EXCEPT !.keys = @ \cup {"type", "content_path"}, !.type = "image"],
      [DefB EXCEPT !.keys = @ \cup {"type", "content_path"}, !.type = "image",
                   !.content_path = [exists |-> TRUE]],
      [DefB EXCEPT !.keys = @ \cup {"content_path"}] }

RichDefs == AgenticDefs \cup ExtensionDefs

BodyMarkers == {OpenMarker(idAX), OpenMarker(idBY), CloseMarker}

BodyLines == SeqsUpTo(BodyMarkers, MaxLineLen)

NarrowLines == {line \in BodyLines : Len(line) <= 1}

WideLines == BodyLines \ NarrowLines

\* bodies of n lines, one of them with several markers
WideBodies(n) ==
    { SubSeq(b, 1, j - 1) \o <<line>> \o SubSeq(b, j + 1, n) :
          b \in [1..n -> NarrowLines], j \in 1..n, line \in WideLines }

\* bodies of up to MaxLines lines, at most one of them with several markers
RichBodies ==
    UNION {[1..n -> NarrowLines] \cup WideBodies(n) : n \in 1..MaxLines}

FewBodies ==
    { << <<OpenMarker(idAX), CloseMarker>> >>,
      << <<OpenMarker(idBad), OpenMarker(idBY)>>, <<CloseMarker, CloseMarker>> >> }

Document(fm, hlines, has_chunks, defs, body) ==
    [fm |-> fm, hlines |-> hlines, has_chunks |-> has_chunks,
     chunks_obj |-> "list", chunks |-> defs, body |-> body]

\* an entry with dependencies alone, before and after the entry of b:y
DepHeaders == UNION { {<<d>>, <<d, DefB>>, <<DefB, d>>} : d \in DepDefs }

HeaderDocs ==
    { Document("mapping", 1, TRUE, cs, b) :
          cs \in SeqsUpTo(SimpleDefs, MaxDefs) \cup SeqsUpTo(RichDefs, MaxRichDefs)
                    \cup DepHeaders,
          b \in FewBodies }

BodyDocs ==
    { Document("absent", 0, FALSE, <<>>, b) : b \in RichBodies }
    \cup
    { Document("mapping", 1, TRUE, cs, b) :
          cs \in {<<DefA>>, <<DefA, DefB>>}, b \in RichBodies }

DegradedDocs ==
    { Document(fm, h, FALSE, <<>>, b) :
          fm \in {"unterminated", "yamlerror", "null", "mapping", "emptymapping"},
          h \in {0, 2}, b \in FewBodies }

NoneEntry == [BaseDef EXCEPT !.obj = "None"]
StrEntry == [BaseDef EXCEPT !.obj = "str"]

\* headers that are no mapping, that have a null 'chunks' value, or whose
\* 'chunks' list has entries that are no mappings
MalformedDocs ==
    { Document(fm, 1, hc, <<>>, b) :
          fm \in {"str", "list"}, hc \in BOOLEAN, b \in FewBodies }
    \cup
    { Document("int", 1, FALSE, <<>>, b) : b \in FewBodies }
    \cup
    { [Document("mapping", 1, TRUE, <<>>, b) EXCEPT !.chunks_obj = "None"] :
          b \in FewBodies }
    \cup
    { Document("mapping", 1, TRUE, cs, b) :
          cs \in SeqsUpTo({DefA, NoneEntry, StrEntry}, MaxMalformed) \ {<<>>},
          b \in FewBodies }

\* bodies of one line that holds two complete sibling pairs
SiblingDocs ==
    { Document("absent", 0, FALSE, <<>>,
               << <<OpenMarker(a), CloseMarker, OpenMarker(b), CloseMarker>> >>) :
          a, b \in {idAX, idBY} }

Documents ==
    HeaderDocs \cup BodyDocs \cup DegradedDocs \cup MalformedDocs \cup SiblingDocs

----------------------------------------------------------------------------
(* parse_frontmatter: (frontmatter, remaining lines, frontmatter_end_line). *)
(* frontmatter is None (is_none) or the object safe_load returns, obj its   *)
(* type.  When no header is recognised the whole text, delimiter and       *)
(* header lines included, is the body and the end line is 0.               *)
None ==
    [is_none |-> TRUE, obj |-> "None", empty |-> TRUE, has_chunks |-> FALSE,
     chunks_obj |-> "list", chunks |-> <<>>]

Mapping(d) ==
    [is_none |-> FALSE,
     obj |-> IF d.fm \in {"str", "list", "int"} THEN d.fm ELSE "dict",
     empty |-> d.fm = "emptymapping",
     has_chunks |-> d.has_chunks, chunks_obj |-> d.chunks_obj, chunks |-> d.chunks]

BlankLines(n) == [j \in 1..n |-> EmptyLine]

parse_frontmatter(d) ==
    CASE d.fm = "absent"       -> <<None, d.body, 0>>
      [] d.fm = "unterminated" -> <<None, BlankLines(1 + d.hlines) \o d.body, 0>>
      [] d.fm = "yamlerror"    -> <<None, BlankLines(2 + d.hlines) \o d.body, 0>>
      [] d.fm = "null"         -> <<None, d.body, d.hlines + 2>>
      [] d.fm \in {"mapping", "emptymapping", "str", "list", "int"}
                               -> <<Mapping(d), d.body, d.hlines + 2>>

\* truth value of the frontmatter object: None and the empty mapping are falsy
Truthy(f) == ~f.is_none /\ ~f.empty

----------------------------------------------------------------------------
(* validate_file *)
NoStats ==
    [chunk_count |-> 0, context_words |-> 0, unique_tags |-> 0,
     categories |-> <<>>, error |-> 0, warning |-> 0, info |-> 0]

NoReport == [issues |-> <<>>, stats |-> NoStats]

Init ==
    /\ doc \in Documents
    /\ pc = "parse"
    /\ frontmatter = None
    /\ lines = <<>>
    /\ fm_end_line = 0
    /\ k = 1
    /\ fm_chunks = <<>>
    /\ all_chunk_ids = {}
    /\ errors = <<>>
    /\ ln = 1
    /\ mi = 1
    /\ body_chunk_ids = <<>>
    /\ open_chunks = <<>>
    /\ dpc = "off"
    /\ run = 1
    /\ body_chunks = <<>>
    /\ chunks = <<>>
    /\ issues = <<>>
    /\ stats = NoStats
    /\ first_report = NoReport

\* lines 165-173
ParseFrontmatter ==
    /\ pc = "parse"
    /\ LET r == parse_frontmatter(doc) IN
         /\ frontmatter' = r[1]
         /\ lines' = r[2]
         /\ fm_end_line' = r[3]
    /\ pc' = "header"
    /\ UNCHANGED <<dvars, doc, k, fm_chunks, all_chunk_ids, errors, ln, mi,
                   body_chunk_ids, open_chunks>>

\* line 175: frontmatter and 'chunks' in frontmatter
HasChunks == Truthy(frontmatter) /\ frontmatter.has_chunks

\* lines 175-176 raise TypeError: 'chunks' in frontmatter on a number,
\* frontmatter['chunks'] on a string or a list, iteration over None
HeaderTypeError(f) ==
    /\ Truthy(f)
    /\ \/ f.obj = "int"
       \/ f.has_chunks /\ f.obj \in {"str", "list"}
       \/ f.has_chunks /\ f.chunks_obj = "None"

\* line 177 raises TypeError: 'id' not in chunk_def on None
EntryTypeError(chunk_def) == chunk_def.obj = "None"

\* variant: the duplicate test reads all_chunk_ids, which already holds the id
DuplicateInFrontmatter_AfterAdd(chunk_id, fm, ids) == chunk_id \in ids

\* line 189: chunk_id in fm_chunks
DuplicateInFrontmatter(chunk_id, fm, ids) == chunk_id \in Keys(fm)

\* lines 189-209: the errors of one header entry that has an id;
\* fm is fm_chunks before the entry, ids is all_chunk_ids after line 186
HeaderEntryErrors(chunk_def, chunk_id, line_num, fm, ids) ==
    (IF DuplicateInFrontmatter(chunk_id, fm, ids)
     THEN <<ValidationError(line_num, "dup_frontmatter", "error", chunk_id, <<>>, 0)>>
     ELSE <<>>)
    \o (IF "context" \notin chunk_def.keys
        THEN <<ValidationError(line_num, "missing_context", "warning", chunk_id, <<>>, 0)>>
        ELSE <<>>)
    \o validate_temporal_fields(chunk_def, chunk_id, line_num)
    \o validate_agentic_fields(chunk_def, chunk_id, line_num, ids)
    \o validate_multimodal_fields(chunk_def, chunk_id, line_num)

\* lines 176-209: one iteration of the loop over frontmatter['chunks']
HeaderEntry ==
    /\ pc = "header"
    /\ ~HeaderTypeError(frontmatter)
    /\ HasChunks
    /\ k <= Len(frontmatter.chunks)
    /\ ~EntryTypeError(frontmatter.chunks[k])
    /\ LET chunk_def == frontmatter.chunks[k]
           i == k - 1
           chunk_id == chunk_def.id
           line_num == i + 2
           ids == all_chunk_ids \cup {chunk_id}
       IN IF "id" \notin chunk_def.keys
          THEN /\ errors' = Append(errors,
                        ValidationError(i + 2, "missing_id", "error", NoId, <<>>, i + 1))
               /\ UNCHANGED <<fm_chunks, all_chunk_ids>>
          ELSE /\ all_chunk_ids' = ids
               /\ fm_chunks' = IF DuplicateInFrontmatter(chunk_id, fm_chunks, ids)
                               THEN fm_chunks
                               ELSE Append(fm_chunks, [id |-> chunk_id, def |-> chunk_def])
               /\ errors' = errors
                    \o HeaderEntryErrors(chunk_def, chunk_id, line_num, fm_chunks, ids)
    /\ k' = k + 1
    /\ UNCHANGED <<dvars, doc, pc, frontmatter, lines, fm_end_line, ln, mi,
                   body_chunk_ids, open_chunks>>

\* the TypeError of lines 175-177 leaves validate_file
HeaderRaise ==
    /\ pc = "header"
    /\ \/ HeaderTypeError(frontmatter)
       \/ /\ HasChunks
          /\ k <= Len(frontmatter.chunks)
          /\ EntryTypeError(frontmatter.chunks[k])
    /\ pc' = "raised"
    /\ UNCHANGED <<dvars, doc, frontmatter, lines, fm_end_line, k, fm_chunks,
                   all_chunk_ids, errors, ln, mi, body_chunk_ids, open_chunks>>

\* lines 210-215
NoFrontmatter ==
    /\ pc = "header"
    /\ ~HasChunks
    /\ frontmatter.is_none
    /\ errors' = Append(errors,
           ValidationError(1, "no_frontmatter", "warning", NoId, <<>>, 0))
    /\ pc' = "scan"
    /\ UNCHANGED <<dvars, doc, frontmatter, lines, fm_end_line, k, fm_chunks,
                   all_chunk_ids, ln, mi, body_chunk_ids, open_chunks>>

\* lines 216-221
NoChunksArray ==
    /\ pc = "header"
    /\ ~HeaderTypeError(frontmatter)
    /\ ~HasChunks
    /\ ~frontmatter.is_none
    /\ ~frontmatter.has_chunks
    /\ errors' = Append(errors,
           ValidationError(1, "no_chunks_array", "warning", NoId, <<>>, 0))
    /\ pc' = "scan"
    /\ UNCHANGED <<dvars, doc, frontmatter, lines, fm_end_line, k, fm_chunks,
                   all_chunk_ids, ln, mi, body_chunk_ids, open_chunks>>

\* the header loop is exhausted
HeaderDone ==
    /\ pc = "header"
    /\ ~HeaderTypeError(frontmatter)
    /\ HasChunks
    /\ k > Len(frontmatter.chunks)
    /\ pc' = "scan"
    /\ UNCHANGED <<dvars, doc, frontmatter, lines, fm_end_line, k, fm_chunks,
                   all_chunk_ids, errors, ln, mi, body_chunk_ids, open_chunks>>

\* lines 224-229
BeginScan ==
    /\ pc = "scan"
    /\ ln' = 1
    /\ mi' = 1
    /\ body_chunk_ids' = <<>>
    /\ open_chunks' = <<>>
    /\ pc' = "open"
    /\ UNCHANGED <<dvars, doc, frontmatter, lines, fm_end_line, k, fm_chunks,
                   all_chunk_ids, errors>>

\* the line number the code calls i: enumerate(lines, fm_end_line + 1)
LineNo == fm_end_line + ln

\* variant: the nesting error cites the bottom of the stack, not its top
OpenErrors_NestBottom(chunk_id, i) ==
    (IF fm_chunks # <<>> /\ chunk_id \notin Keys(fm_chunks)
     THEN <<ValidationError(i, "not_in_frontmatter", "error", chunk_id, <<>>, 0)>>
     ELSE <<>>)
    \o
    (IF chunk_id \in Keys(body_chunk_ids)
     THEN <<ValidationError(i, "dup_body", "error", chunk_id, <<>>,
                            Lookup(body_chunk_ids, chunk_id).line)>>
     ELSE <<>>)
    \o
    (IF open_chunks # <<>>
     THEN <<ValidationError(i, "nested", "error", chunk_id,
                            Head(open_chunks).id, Head(open_chunks).line)>>
     ELSE <<>>)
    \o
    (IF ~ID_PATTERN_match(chunk_id)
     THEN <<ValidationError(i, "bad_id_format", "warning", chunk_id, <<>>, 0)>>
     ELSE <<>>)

\* variant: the header lookup is not guarded by a non-empty fm_chunks
OpenErrors_NoHeaderGuard(chunk_id, i) ==
    (IF chunk_id \notin Keys(fm_chunks)
     THEN <<ValidationError(i, "not_in_frontmatter", "error", chunk_id, <<>>, 0)>>
     ELSE <<>>)
    \o
    (IF chunk_id \in Keys(body_chunk_ids)
     THEN <<ValidationError(i, "dup_body", "error", chunk_id, <<>>,
                            Lookup(body_chunk_ids, chunk_id).line)>>
     ELSE <<>>)
    \o
    (IF open_chunks # <<>>
     THEN <<ValidationError(i, "nested", "error", chunk_id,
                            Last(open_chunks).id, Last(open_chunks).line)>>
     ELSE <<>>)
    \o
    (IF ~ID_PATTERN_match(chunk_id)
     THEN <<ValidationError(i, "bad_id_format", "warning", chunk_id, <<>>, 0)>>
     ELSE <<>>)

\* variant: the duplicate-id error cites the line of the marker itself
OpenErrors_DupCitesSelf(chunk_id, i) ==
    (IF fm_chunks # <<>> /\ chunk_id \notin Keys(fm_chunks)
     THEN <<ValidationError(i, "not_in_frontmatter", "error", chunk_id, <<>>, 0)>>
     ELSE <<>>)
    \o
    (IF chunk_id \in Keys(body_chunk_ids)
     THEN <<ValidationError(i, "dup_body", "error", chunk_id, <<>>, i)>>
     ELSE <<>>)
    \o
    (IF open_chunks # <<>>
     THEN <<ValidationError(i, "nested", "error", chunk_id,
                            Last(open_chunks).id, Last(open_chunks).line)>>
     ELSE <<>>)
    \o
    (IF ~ID_PATTERN_match(chunk_id)
     THEN <<ValidationError(i, "bad_id_format", "warning", chunk_id, <<>>, 0)>>
     ELSE <<>>)

\* the errors of one open marker, lines 236-270
OpenErrors(chunk_id, i) ==
    (IF fm_chunks # <<>> /\ chunk_id \notin Keys(fm_chunks)
     THEN <<ValidationError(i, "not_in_frontmatter", "error", chunk_id, <<>>, 0)>>
     ELSE <<>>)
    \o
    (IF chunk_id \in Keys(body_chunk_ids)
     THEN <<ValidationError(i, "dup_body", "error", chunk_id, <<>>,
                            Lookup(body_chunk_ids, chunk_id).line)>>
     ELSE <<>>)
    \o
    (IF open_chunks # <<>>
     THEN <<ValidationError(i, "nested", "error", chunk_id,
                            Last(open_chunks).id, Last(open_chunks).line)>>
     ELSE <<>>)
    \o
    (IF ~ID_PATTERN_match(chunk_id)
     THEN <<ValidationError(i, "bad_id_format", "warning", chunk_id, <<>>, 0)>>
     ELSE <<>>)

\* lines 233-270: one match of open_pattern on the current line
ScanOpen ==
    /\ pc = "open"
    /\ ln <= Len(lines)
    /\ mi <= Len(OpenMatches(lines[ln]))
    /\ LET chunk_id == OpenMatches(lines[ln])[mi].id
           i == LineNo
       IN /\ errors' = errors \o OpenErrors(chunk_id, i)
          /\ body_chunk_ids' = IF chunk_id \in Keys(body_chunk_ids)
                               THEN body_chunk_ids
                               ELSE Append(body_chunk_ids, [id |-> chunk_id, line |-> i])
          /\ open_chunks' = Append(open_chunks, [id |-> chunk_id, line |-> i])
    /\ mi' = mi + 1
    /\ UNCHANGED <<dvars, doc, pc, frontmatter, lines, fm_end_line, k, fm_chunks,
                   all_chunk_ids, ln>>

\* the open matches of the line are exhausted: go on to its close matches
OpensDone ==
    /\ pc = "open"
    /\ ln <= Len(lines)
    /\ mi > Len(OpenMatches(lines[ln]))
    /\ pc' = "close"
    /\ mi' = 1
    /\ UNCHANGED <<dvars, doc, frontmatter, lines, fm_end_line, k, fm_chunks,
                   all_chunk_ids, errors, ln, body_chunk_ids, open_chunks>>

\* variant: a close marker pops the stack without looking whether it is empty
ScanClose_NoEmptyTest ==
    /\ pc = "close"
    /\ mi <= Len(CloseMatches(lines[ln]))
    /\ open_chunks' = ButLast(open_chunks)
    /\ mi' = mi + 1
    /\ UNCHANGED <<dvars, doc, pc, frontmatter, lines, fm_end_line, k, fm_chunks,
                   all_chunk_ids, ln, body_chunk_ids, errors>>

\* lines 273-281: one match of close_pattern on the current line
ScanClose ==
    /\ pc = "close"
    /\ mi <= Len(CloseMatches(lines[ln]))
    /\ IF open_chunks = <<>>
       THEN /\ errors' = Append(errors,
                   ValidationError(LineNo, "unmatched_close", "error", NoId, <<>>, 0))
            /\ UNCHANGED open_chunks
       ELSE /\ open_chunks' = ButLast(open_chunks)
            /\ UNCHANGED errors
    /\ mi' = mi + 1
    /\ UNCHANGED <<dvars, doc, pc, frontmatter, lines, fm_end_line, k, fm_chunks,
                   all_chunk_ids, ln, body_chunk_ids>>

\* the close matches of the line are exhausted: next line
NextLine ==
    /\ pc = "close"
    /\ mi > Len(CloseMatches(lines[ln]))
    /\ ln' = ln + 1
    /\ mi' = 1
    /\ pc' = "open"
    /\ UNCHANGED <<dvars, doc, frontmatter, lines, fm_end_line, k, fm_chunks,
                   all_chunk_ids, errors, body_chunk_ids, open_chunks>>

\* variant: only the innermost unclosed marker is reported
UnclosedErrors_TopOnly(stack) ==
    IF stack = <<>> THEN <<>>
    ELSE <<ValidationError(Last(stack).line, "unclosed", "error", Last(stack).id, <<>>, 0)>>

\* lines 284-289
UnclosedErrors(stack) ==
    [j \in 1..Len(stack) |->
        ValidationError(stack[j].line, "unclosed", "error", stack[j].id, <<>>, 0)]

\* lines 283-289: end of input
EndOfInput ==
    /\ pc = "open"
    /\ ln > Len(lines)
    /\ errors' = errors \o UnclosedErrors(open_chunks)
    /\ pc' = "reconcile"
    /\ UNCHANGED <<dvars, doc, frontmatter, lines, fm_end_line, k, fm_chunks,
                   all_chunk_ids, ln, mi, body_chunk_ids, open_chunks>>

NotInBodyErrors(fm, body_ids) ==
    LET unused == SelectSeq(fm, LAMBDA e : e.id \notin body_ids) IN
    [j \in 1..Len(unused) |->
        ValidationError(1, "not_in_body", "warning", unused[j].id, <<>>, 0)]

\* lines 291-301: header chunks not used in the body, then return
Reconcile ==
    /\ pc = "reconcile"
    /\ errors' = errors \o NotInBodyErrors(fm_chunks, Keys(body_chunk_ids))
    /\ pc' = "done"
    /\ UNCHANGED <<dvars, doc, frontmatter, lines, fm_end_line, k, fm_chunks,
                   all_chunk_ids, ln, mi, body_chunk_ids, open_chunks>>

Next ==
    \/ ParseFrontmatter
    \/ HeaderEntry
    \/ HeaderRaise
    \/ NoFrontmatter
    \/ NoChunksArray
    \/ HeaderDone
    \/ BeginScan
    \/ ScanOpen
    \/ OpensDone
    \/ ScanClose
    \/ NextLine
    \/ EndOfInput
    \/ Reconcile

Spec == Init /\ [][Next]_vars

----------------------------------------------------------------------------
(* Properties of validate_file *)
Count(s, Test(_)) == Len(SelectSeq(s, Test))

IsPrefix(s, t) == Len(s) <= Len(t) /\ SubSeq(t, 1, Len(s)) = s

\* the markers of the body in reading order
BodyMarkerSeq == SelectSeq(Flatten(lines), LAMBDA m : IsOpen(m) \/ IsClose(m))

BodyOpens == OpenMatches(BodyMarkerSeq)

BodyIds == {BodyOpens[j].id : j \in 1..Len(BodyOpens)}

\* the header entries that carry an id, and the ids they declare
IdEntries ==
    IF HasChunks
    THEN {j \in 1..Len(frontmatter.chunks) : "id" \in frontmatter.chunks[j].keys}
    ELSE {}

DeclaredIds == {frontmatter.chunks[j].id : j \in IdEntries}

StructuralKinds == {"dup_body", "nested", "unmatched_close", "unclosed"}

WellFormedMarkers(ms) ==
    /\ Len(ms) % 2 = 0
    /\ \A j \in 1..Len(ms) : IsOpen(ms[j]) <=> (j % 2 = 1)
    /\ \A i, j \in 1..Len(ms) : (IsOpen(ms[i]) /\ IsOpen(ms[j]) /\ i # j) => ms[i].id # ms[j].id

\* C1: a body whose markers are well-formed, never nested and carry pairwise
\* distinct ids, wherever the markers fall on lines, gets no structural error
\* and as many recorded chunk ids as ids opened and closed.
C1_WellFormedBodyHasNoStructuralError ==
    (pc = "done" /\ WellFormedMarkers(BodyMarkerSeq)) =>
        /\ \A j \in 1..Len(errors) : errors[j].kind \notin StructuralKinds
        /\ Len(body_chunk_ids) = Cardinality(BodyIds)

\* an open marker is about to be scanned while the stack is not empty
OpenWhileOpen ==
    /\ pc = "open"
    /\ ln <= Len(lines)
    /\ mi <= Len(OpenMatches(lines[ln]))
    /\ open_chunks # <<>>

\* C2: scanning an open marker B while A is the top of the open-marker stack
\* appends exactly one nesting error, for B, naming A and the line at which A
\* was opened; errors already emitted are never withdrawn afterwards.
C2_NestingErrorCitesStackTop ==
    [][ /\ IsPrefix(errors, errors')
        /\ OpenWhileOpen =>
             LET new == SubSeq(errors', Len(errors) + 1, Len(errors'))
                 nest == SelectSeq(new, LAMBDA e : e.kind = "nested")
             IN /\ Len(nest) = 1
                /\ nest[1].id = OpenMatches(lines[ln])[mi].id
                /\ nest[1].line = LineNo
                /\ nest[1].ref = Last(open_chunks).id
                /\ nest[1].refLine = Last(open_chunks).line
                /\ nest[1].severity = "error" ]_vars

\* a nesting error was emitted for a marker that was then closed, two deep
C2_Witness ==
    /\ pc = "done"
    /\ open_chunks = <<>>
    /\ \E j \in 1..Len(errors) :
          /\ errors[j].kind = "nested"
          /\ errors[j].ref = idBY
          /\ errors[j].id = idAX

Unclosed == SelectSeq(errors, LAMBDA e : e.kind = "unclosed")

\* C3: at end of input there is exactly one unclosed error per entry left on
\* the stack, carrying the id and the line at which that marker was opened,
\* and none when the stack is empty; none is emitted before end of input.
C3_OneUnclosedErrorPerStackEntry ==
    IF pc \in {"reconcile", "done"}
    THEN /\ Len(Unclosed) = Len(open_chunks)
         /\ \A j \in 1..Len(open_chunks) :
               /\ Unclosed[j].id = open_chunks[j].id
               /\ Unclosed[j].line = open_chunks[j].line
               /\ Unclosed[j].severity = "error"
               /\ open_chunks[j].line - fm_end_line \in 1..Len(lines)
               /\ \E m \in Range(lines[open_chunks[j].line - fm_end_line]) :
                     IsOpen(m) /\ m.id = open_chunks[j].id
    ELSE Unclosed = <<>>

\* two markers opened on different lines are left unclosed
C3_Witness ==
    /\ pc = "done"
    /\ Len(open_chunks) >= 2
    /\ open_chunks[1].line # open_chunks[2].line

Occurrences(id) ==
    Cardinality({j \in IdEntries : frontmatter.chunks[j].id = id})

DuplicateErrors(id) ==
    Count(errors, LAMBDA e : e.kind = "dup_frontmatter" /\ e.id = id)

C7_HeaderBodyReconciliation ==
    pc = "done" =>
        LET nif == SelectSeq(errors, LAMBDA e : e.kind = "not_in_frontmatter")
            nib == SelectSeq(errors, LAMBDA e : e.kind = "not_in_body")
        IN IF DeclaredIds # {}
           THEN /\ \A n \in 1..Len(lines) : \A id \in BodyIds \ DeclaredIds :
                      Count(nif, LAMBDA e : /\ e.id = id
                                            /\ e.line = fm_end_line + n
                                            /\ e.severity = "error")
                         = Count(OpenMatches(lines[n]), LAMBDA m : m.id = id)
                /\ Len(nif) = Count(BodyOpens, LAMBDA m : m.id \notin DeclaredIds)
                /\ \A id \in DeclaredIds \ BodyIds :
                      Count(nib, LAMBDA e : e.id = id /\ e.severity = "warning") = 1
                /\ Len(nib) = Cardinality(DeclaredIds \ BodyIds)
           ELSE nif = <<>> /\ nib = <<>>

\* an undeclared body id got its error and an unused header id its warning
C7_Witness ==
    /\ pc = "done"
    /\ \E i, j \in 1..Len(errors) :
          /\ errors[i].kind = "not_in_frontmatter"
          /\ errors[j].kind = "not_in_body"

DependencyKinds == {"dep_not_found", "dep_not_string"}

\* C8: a string dependency that is the id of no chunk of the document and is
\* not the entry's own id gets exactly one issue per listing, of severity
\* warning, and the entry's id is registered in fm_chunks.
C8_UnknownDependencyIsWarning ==
    pc = "done" =>
        \A j \in IdEntries :
            LET d == frontmatter.chunks[j] IN
            ("dependencies" \in d.keys /\ d.deps_is_list) =>
                \A p \in 1..Len(d.dependencies) :
                    LET dep == d.dependencies[p]
                        about == SelectSeq(errors, LAMBDA e :
                                     /\ e.kind \in DependencyKinds
                                     /\ e.line = j + 1
                                     /\ e.ref = dep.v)
                    IN (dep.str /\ dep.v \notin (DeclaredIds \cup BodyIds) /\ dep.v # d.id) =>
                          /\ Len(about) = Count(d.dependencies, LAMBDA x : x = dep)
                          /\ \A q \in 1..Len(about) :
                                /\ about[q].severity = "warning"
                                /\ about[q].id = d.id
                          /\ d.id \in Keys(fm_chunks)

\* a dependency on an id that no chunk has was reported
C8_Witness ==
    /\ pc = "done"
    /\ \E j \in 1..Len(errors) :
          errors[j].kind = "dep_not_found" /\ errors[j].ref = idMissing

----------------------------------------------------------------------------
(* diagnose_chunks.py: parsing and loading *)

\* the text of an open marker met inside a chunk's content, as two words
MarkerWords(id) ==
    << <<"<", "C", "h", "u", "n", "k">>,
       <<"i", "d", "=", "\"">> \o id \o <<"\"", ">">> >>

\* the text between two markers
RECURSIVE Render(_)
Render(toks) ==
    IF toks = <<>> THEN <<>>
    ELSE (IF IsOpen(Head(toks)) THEN MarkerWords(Head(toks).id)
          ELSE <<Head(toks).word>>)
         \o Render(Tail(toks))

\* pattern.finditer(content), lines 97-100: the non-overlapping matches of
\* <Chunk id="..."> (.*?) </Chunk>, leftmost first, each as (id, content)
RECURSIVE ChunkMatches(_, _)
ChunkMatches(toks, pos) ==
    LET starts == {b \in pos..Len(toks) :
                      /\ IsOpen(toks[b])
                      /\ \E e \in (b + 1)..Len(toks) : IsClose(toks[e])}
    IN IF starts = {} THEN <<>>
       ELSE LET b == CHOOSE x \in starts : \A y \in starts : x <= y
                ends == {e \in (b + 1)..Len(toks) : IsClose(toks[e])}
                e == CHOOSE x \in ends : \A y \in ends : x <= y
            IN <<[id |-> toks[b].id, content |-> Render(SubSeq(toks, b + 1, e - 1))]>>
               \o ChunkMatches(toks, e + 1)

\* d[id] = content on a dict kept in insertion order
Put(d, id, content) ==
    IF id \in Keys(d)
    THEN [j \in 1..Len(d) |-> IF d[j].id = id THEN [id |-> id, content |-> content] ELSE d[j]]
    ELSE Append(d, [id |-> id, content |-> content])

RECURSIVE DictOf(_, _)
DictOf(d, ms) ==
    IF ms = <<>> THEN d ELSE DictOf(Put(d, Head(ms).id, Head(ms).content), Tail(ms))

\* extract_chunks, lines 95-101 (and export_to_lancedb.py lines 70-85)
extract_chunks(toks) == DictOf(<<>>, ChunkMatches(toks, 1))

\* body_chunks.get(chunk_id, '')
GetContent(d, id) == IF id \in Keys(d) THEN Lookup(d, id).content ELSE <<>>

\* parse_frontmatter of diagnose_chunks.py, lines 70-92: (frontmatter, body)
diagnose_parse_frontmatter(d) ==
    LET r == parse_frontmatter(d) IN <<r[1], Flatten(r[2])>>

ChunkData(id, context, content, tags) ==
    [id |-> id, context |-> context, content |-> content, tags |-> tags]

\* variant: an entry without id, or with an empty id, is kept
RECURSIVE CollectChunks_KeepsIdless(_, _)
CollectChunks_KeepsIdless(defs, bc) ==
    IF defs = <<>> THEN <<>>
    ELSE LET chunk_def == Head(defs)
             chunk_id == IF "id" \in chunk_def.keys THEN chunk_def.id ELSE NoId
         IN <<ChunkData(chunk_id,
                  IF "context" \in chunk_def.keys THEN chunk_def.context ELSE <<>>,
                  GetContent(bc, chunk_id),
                  IF "tags" \in chunk_def.keys THEN chunk_def.tags ELSE <<>>)>>
            \o CollectChunks_KeepsIdless(Tail(defs), bc)

\* lines 115-126: the records built from the header entries, in header order
RECURSIVE CollectChunks(_, _)
CollectChunks(defs, bc) ==
    IF defs = <<>> THEN <<>>
    ELSE LET chunk_def == Head(defs)
             chunk_id == IF "id" \in chunk_def.keys THEN chunk_def.id ELSE NoId
         IN (IF chunk_id = NoId THEN <<>>
             ELSE <<ChunkData(chunk_id,
                        IF "context" \in chunk_def.keys THEN chunk_def.context ELSE <<>>,
                        GetContent(bc, chunk_id),
                        IF "tags" \in chunk_def.keys THEN chunk_def.tags ELSE <<>>)>>)
            \o CollectChunks(Tail(defs), bc)

\* load_document raises: TypeError at line 109 or 115 as in validate_file,
\* AttributeError at line 116 on chunk_def.get of None or of a str
load_document_raises(d) ==
    LET fm == diagnose_parse_frontmatter(d)[1]
    IN \/ HeaderTypeError(fm)
       \/ /\ Truthy(fm)
          /\ fm.has_chunks
          /\ \E j \in 1..Len(fm.chunks) : fm.chunks[j].obj # "dict"

\* load_document, lines 104-128: (body_chunks, chunks); raw_def and the
\* returned frontmatter are not read by run_diagnostics and are left out
load_document(d) ==
    LET r == diagnose_parse_frontmatter(d)
        fm == r[1]
        bc == extract_chunks(r[2])
    IN IF ~Truthy(fm) \/ ~fm.has_chunks
       THEN <<<<>>, <<>>>>
       ELSE <<bc, CollectChunks(fm.chunks, bc)>>

----------------------------------------------------------------------------
(* diagnose_chunks.py: the four heuristics *)
Issue(category, severity, chunk_ids, kind, words, n1, n2, fix) ==
    [category |-> category, severity |-> severity, chunk_ids |-> chunk_ids,
     kind |-> kind, words |-> words, n1 |-> n1, n2 |-> n2, fix |-> fix]

\* a ratio is kept as numerator and denominator
Ratio(n, d) == [num |-> n, den |-> d]

RatioGeq(r, t) == r.num * t.den >= t.num * r.den

RatioGt(r, t) == r.num * t.den > t.num * r.den

RatioEq(r, t) == r.num * t.den = t.num * r.den

\* variant: the intersection is divided by the size of the first set
jaccard_similarity_OverFirst(set1, set2) ==
    IF set1 = {} \/ set2 = {} THEN Ratio(0, 1)
    ELSE LET intersection == Cardinality(set1 \cap set2)
             union == Cardinality(set1)
         IN IF union > 0 THEN Ratio(intersection, union) ELSE Ratio(0, 1)

\* jaccard_similarity, lines 140-146
jaccard_similarity(set1, set2) ==
    IF set1 = {} \/ set2 = {} THEN Ratio(0, 1)
    ELSE LET intersection == Cardinality(set1 \cap set2)
             union == Cardinality(set1 \cup set2)
         IN IF union > 0 THEN Ratio(intersection, union) ELSE Ratio(0, 1)

SIMILARITY_THRESHOLD == Ratio(6, 10)

\* the pairs (i, j), i < j, in the order of the two nested loops
Pairs(n) == Flatten([i \in 1..n |-> [m \in 1..(n - i) |-> <<i, i + m>>]])

ChunkTokens(c) == Range(tokenize(c.context \o c.content))

\* variant: a pair is reported only above the threshold, not at it
SimilarityIssue_Strict(chunk_a, chunk_b) ==
    LET tokens_a == ChunkTokens(chunk_a)
        tokens_b == ChunkTokens(chunk_b)
        similarity == jaccard_similarity(tokens_a, tokens_b)
    IN IF RatioGt(similarity, SIMILARITY_THRESHOLD)
       THEN <<Issue("semantic_similarity", "warning", <<chunk_a.id, chunk_b.id>>,
                    "similar", FirstN(sorted(tokens_a \cap tokens_b), 10),
                    similarity.num, similarity.den, "")>>
       ELSE <<>>

\* lines 163-179
SimilarityIssue(chunk_a, chunk_b) ==
    LET tokens_a == ChunkTokens(chunk_a)
        tokens_b == ChunkTokens(chunk_b)
        similarity == jaccard_similarity(tokens_a, tokens_b)
    IN IF RatioGeq(similarity, SIMILARITY_THRESHOLD)
       THEN <<Issue("semantic_similarity", "warning", <<chunk_a.id, chunk_b.id>>,
                    "similar", FirstN(sorted(tokens_a \cap tokens_b), 10),
                    similarity.num, similarity.den, "")>>
       ELSE <<>>

\* check_semantic_similarity, lines 149-181
check_semantic_similarity(cs) ==
    LET ps == Pairs(Len(cs)) IN
    Flatten([p \in 1..Len(ps) |-> SimilarityIssue(cs[ps[p][1]], cs[ps[p][2]])])

MIN_WORDS == 8
MAX_WORDS == 50
OPENER_WORDS == 15
REPEAT_THRESHOLD == Ratio(7, 10)

\* lines 240-260: the context repeats the opening of the content
RepeatIssue(chunk) ==
    IF chunk.content # <<>>
    THEN LET content_opener == LowerText(FirstN(chunk.content, OPENER_WORDS))
             context_lower == LowerText(chunk.context)
             context_tokens == Range(tokenize(context_lower))
             content_tokens == Range(tokenize(content_opener))
         IN IF /\ context_tokens # {}
               /\ content_tokens # {}
               /\ RatioGt(jaccard_similarity(context_tokens, content_tokens),
                          REPEAT_THRESHOLD)
            THEN <<Issue("context_quality", "warning", <<chunk.id>>,
                         "repeats_opening", <<>>, 0, 0, "")>>
            ELSE <<>>
    ELSE <<>>

\* variant: a context that is too short is reported with severity error
ContextIssues_ShortIsError(chunk) ==
    LET word_count == Len(chunk.context) IN
    IF word_count = 0
    THEN <<Issue("context_quality", "error", <<chunk.id>>, "empty_context",
                 <<>>, 0, 0, "context_placeholder")>>
    ELSE (IF word_count < MIN_WORDS
          THEN <<Issue("context_quality", "error", <<chunk.id>>, "too_short",
                       <<>>, word_count, 0, "")>>
          ELSE <<>>)
         \o
         (IF word_count > MAX_WORDS
          THEN <<Issue("context_quality", "info", <<chunk.id>>, "too_verbose",
                       <<>>, word_count, 0, "")>>
          ELSE <<>>)
         \o RepeatIssue(chunk)

\* variant: the loop goes on after the empty-context error
ContextIssues_NoContinue(chunk) ==
    LET word_count == Len(chunk.context) IN
    (IF word_count = 0
     THEN <<Issue("context_quality", "error", <<chunk.id>>, "empty_context",
                  <<>>, 0, 0, "context_placeholder")>>
     ELSE <<>>)
    \o
    (IF word_count < MIN_WORDS
     THEN <<Issue("context_quality", "warning", <<chunk.id>>, "too_short",
                  <<>>, word_count, 0, "")>>
     ELSE <<>>)
    \o
    (IF word_count > MAX_WORDS
     THEN <<Issue("context_quality", "info", <<chunk.id>>, "too_verbose",
                  <<>>, word_count, 0, "")>>
     ELSE <<>>)
    \o RepeatIssue(chunk)

\* lines 198-260: the issues of one chunk
ContextIssues(chunk) ==
    LET word_count == Len(chunk.context) IN
    IF word_count = 0
    THEN <<Issue("context_quality", "error", <<chunk.id>>, "empty_context",
                 <<>>, 0, 0, "context_placeholder")>>
    ELSE (IF word_count < MIN_WORDS
          THEN <<Issue("context_quality", "warning", <<chunk.id>>, "too_short",
                       <<>>, word_count, 0, "")>>
          ELSE <<>>)
         \o
         (IF word_count > MAX_WORDS
          THEN <<Issue("context_quality", "info", <<chunk.id>>, "too_verbose",
                       <<>>, word_count, 0, "")>>
          ELSE <<>>)
         \o RepeatIssue(chunk)

\* check_context_quality, lines 184-262
check_context_quality(cs) == Flatten([j \in 1..Len(cs) |-> ContextIssues(cs[j])])

\* the first occurrences of a sequence, in order
RECURSIVE Dedupe(_)
Dedupe(q) ==
    IF q = <<>> THEN <<>>
    ELSE LET rest == Dedupe(ButLast(q)) IN
         IF Last(q) \in Range(rest) THEN rest ELSE Append(rest, Last(q))

\* the orders in which a set can be iterated
Orders(S) ==
    {f \in [1..Cardinality(S) -> S] : \A i, j \in 1..Cardinality(S) : i # j => f[i] # f[j]}

\* iterating the set S, the hash order of the process being order
SetIter(S, order) == SelectSeq(order, LAMBDA x : x \in S)

TagSet(chunk) == Range(chunk.tags)

UBIQUITY_THRESHOLD == Ratio(8, 10)

\* lines 278-288: the keys of the Counter all_tags, in insertion order
RECURSIVE CounterKeys(_, _)
CounterKeys(cs, order) ==
    IF cs = <<>> THEN <<>>
    ELSE Dedupe(CounterKeys(ButLast(cs), order) \o SetIter(TagSet(Last(cs)), order))

TagCount(cs, tag) == Cardinality({j \in 1..Len(cs) : tag \in TagSet(cs[j])})

\* lines 286-288
ubiquitous_tags(cs, order) ==
    SelectSeq(CounterKeys(cs, order),
              LAMBDA tag : RatioGeq(Ratio(TagCount(cs, tag), Len(cs)), UBIQUITY_THRESHOLD))

ChunkIds(cs) == [j \in 1..Len(cs) |-> cs[j].id]

\* chunk_tag_sets, lines 279-284: dict chunk id -> tag set; a later chunk
\* with the same id replaces the value and keeps the key's position
TagSetOfId(cs, id) ==
    LET js == {j \in 1..Len(cs) : cs[j].id = id}
    IN TagSet(cs[CHOOSE j \in js : \A h \in js : h <= j])

\* lines 305-322: one warning per non-empty tag set shared by several ids
IdenticalTagIssues(cs) ==
    LET ids == Dedupe(ChunkIds(cs))
        tag_sets == Dedupe([j \in 1..Len(ids) |-> TagSetOfId(cs, ids[j])])
        members(ts) == SelectSeq(ids, LAMBDA id : TagSetOfId(cs, id) = ts)
    IN Flatten([g \in 1..Len(tag_sets) |->
           IF Len(members(tag_sets[g])) > 1 /\ tag_sets[g] # {}
           THEN <<Issue("tag_overlap", "warning", members(tag_sets[g]),
                        "identical_tags", sorted(tag_sets[g]), 0, 0, "")>>
           ELSE <<>>])

\* check_tag_overlap, lines 265-324
check_tag_overlap(cs, order) ==
    IF Len(cs) < 2 THEN <<>>
    ELSE (LET ubiq == ubiquitous_tags(cs, order) IN
          IF ubiq # <<>> /\ Len(ubiq) > 1
          THEN <<Issue("tag_overlap", "info", ChunkIds(cs), "ubiquitous_tags",
                       ubiq, 0, 0, "")>>
          ELSE <<>>)
         \o IdenticalTagIssues(cs)

HasColon(id) == \E j \in 1..Len(id) : id[j] = ":"

\* id.split(':')[0]
CategoryOf(id) ==
    IF HasColon(id)
    THEN SubSeq(id, 1, (CHOOSE j \in 1..Len(id) :
                           id[j] = ":" /\ \A h \in 1..(j - 1) : id[h] # ":") - 1)
    ELSE id

\* lines 339-348
FormatIssues(cs) ==
    Flatten([j \in 1..Len(cs) |->
        IF ~ID_PATTERN_match(cs[j].id)
        THEN <<Issue("id_naming", "warning", <<cs[j].id>>, "bad_format", <<>>, 0, 0, "")>>
        ELSE <<>>])

\* lines 337-352: the Counter of category prefixes, keys in insertion order
Conforming(cs) == SelectSeq(cs, LAMBDA c : ID_PATTERN_match(c.id))

Categories(cs) ==
    LET ok == Conforming(cs) IN Dedupe([j \in 1..Len(ok) |-> CategoryOf(ok[j].id)])

CategoryCount(cs, cat) ==
    LET ok == Conforming(cs) IN
    Cardinality({j \in 1..Len(ok) : CategoryOf(ok[j].id) = cat})

\* lines 354-367
SingletonIssues(cs) ==
    LET categories == Categories(cs)
        singletons == SelectSeq(categories, LAMBDA cat : CategoryCount(cs, cat) = 1)
    IN IF /\ Len(categories) > 1
          /\ singletons # <<>>
          /\ Len(singletons) < Len(categories)
       THEN <<Issue("id_naming", "info",
                    ChunkIds(SelectSeq(cs, LAMBDA c : CategoryOf(c.id) \in Range(singletons))),
                    "uncommon_categories", singletons, 0, 0, "")>>
       ELSE <<>>

\* check_id_naming, lines 327-369
check_id_naming(cs) == FormatIssues(cs) \o SingletonIssues(cs)

----------------------------------------------------------------------------
(* diagnose_chunks.py: run_diagnostics *)
CtxShort == <<wApi, wSql>>
CtxLong == Repeat(wOf, MAX_WORDS) \o <<wDb>>

DiagnosedIds == {idAX, idBY, idAY, idUpper}

DiagnosedDef(id, c, t) ==
    [BaseDef EXCEPT !.keys = {"id", "context", "tags"}, !.id = id, !.context = c, !.tags = t]

DiagnosedDefs ==
    { DiagnosedDef(id, CtxShort, <<wPy, wApi>>) : id \in DiagnosedIds }
    \cup
    { DiagnosedDef(idAX, <<>>, <<wPy, wApi>>),
      DiagnosedDef(idAX, CtxLong, <<wPy, wApi>>),
      DiagnosedDef(idBY, CtxLong, <<wPy, wApi>>),
      DiagnosedDef(idAX, CtxShort, <<>>),
      DiagnosedDef(idAX, CtxShort, <<wApi, wDb>>),
      DiagnosedDef(idBY, CtxShort, <<wApi, wDb>>) }
    \cup {BaseDef, [BaseDef EXCEPT !.keys = {"id"}, !.id = idBY],
          [BaseDef EXCEPT !.keys = {"id", "context"}, !.context = CtxShort]}

DiagnosedBody ==
    << <<OpenMarker(idAX), Word(wApi), Word(wSql), CloseMarker>>,
       <<OpenMarker(idBY), Word(wAPI), Word(wSqlApi), CloseMarker>> >>

ExtractTokens == {OpenMarker(idAX), CloseMarker, Word(wApi), Word(wSql)}

\* the id of the j-th header entry of a generated header
PositionId(j) == <<"c", ":", LowerSeq[j]>>

\* headers whose j-th entry has the j-th id, context cs[j] and tags ts[j]
PositionDefs(cs, ts) ==
    [j \in 1..Len(cs) |-> DiagnosedDef(PositionId(j), cs[j], ts[j])]

NoTags(n) == [j \in 1..n |-> <<>>]

\* the words kwa, kwb, ..., and the text "kw<n> ... kw<m>", in descending order
Kw(i) == <<"k", "w", LowerSeq[i]>>

KwDown(m, n) == [j \in 1..(n + 1 - m) |-> Kw(n + 1 - j)]

SimilarContexts ==
    { <<wOf, wDb>>, KwDown(1, 3), KwDown(1, 5), KwDown(2, 8),
      KwDown(1, 12), KwDown(1, 20) }

SimilarDocs ==
    { Document("mapping", 1, TRUE, PositionDefs(cs, NoTags(Len(cs))), <<>>) :
          cs \in SeqsUpTo(SimilarContexts, MaxSimilar) \ {<<>>} }

\* a context of n words whose tokens are those of the content of a:x
ContextOfLength(n) == FirstN(<<wApi, wSql>> \o Repeat(wApi, n), n)

\* one chunk, with content (a:x) or without (a:y), and a context of n words
LengthDocs ==
    { Document("mapping", 1, TRUE,
               <<DiagnosedDef(id, ContextOfLength(n), <<>>)>>, DiagnosedBody) :
          id \in {idAX, idAY}, n \in 0..MaxContextWords }

TagLists == {<<>>, <<wPy>>, <<wPy, wApi>>}

\* up to MaxTagged chunks with distinct ids, each with one of the tag lists
TaggedDocs ==
    { Document("mapping", 1, TRUE,
               PositionDefs([j \in 1..Len(ts) |-> <<wOf, wDb>>], ts), <<>>) :
          ts \in SeqsUpTo(TagLists, MaxTagged) \ {<<>>} }

\* up to MaxNamed chunks, each with one of the diagnosed ids
NamedDocs ==
    { Document("mapping", 1, TRUE,
               [j \in 1..Len(ids) |-> DiagnosedDef(ids[j], <<wOf, wDb>>, <<>>)], <<>>) :
          ids \in SeqsUpTo(DiagnosedIds, MaxNamed) \ {<<>>} }

DiagnosedDocs ==
    { Document("mapping", 1, TRUE, cs, DiagnosedBody) :
          cs \in SeqsUpTo(DiagnosedDefs, MaxChunks) }
    \cup
    { Document("mapping", 1, TRUE, <<DefA>>, <<b>>) :
          b \in SeqsUpTo(ExtractTokens, MaxBodyTokens) }
    \cup DegradedDocs
    \cup MalformedDocs
    \cup SimilarDocs
    \cup LengthDocs
    \cup TaggedDocs
    \cup NamedDocs

InitDiagnose ==
    /\ doc \in DiagnosedDocs
    /\ pc = "off"
    /\ frontmatter = None
    /\ lines = <<>>
    /\ fm_end_line = 0
    /\ k = 1
    /\ fm_chunks = <<>>
    /\ all_chunk_ids = {}
    /\ errors = <<>>
    /\ ln = 1
    /\ mi = 1
    /\ body_chunk_ids = <<>>
    /\ open_chunks = <<>>
    /\ dpc = "load"
    /\ run = 1
    /\ body_chunks = <<>>
    /\ chunks = <<>>
    /\ issues = <<>>
    /\ stats = NoStats
    /\ first_report = NoReport

\* line 392
LoadDocument ==
    /\ dpc = "load"
    /\ IF load_document_raises(doc)
       THEN /\ dpc' = "raised"
            /\ UNCHANGED <<body_chunks, chunks>>
       ELSE LET r == load_document(doc) IN
            /\ body_chunks' = r[1]
            /\ chunks' = r[2]
            /\ dpc' = IF r[2] = <<>> THEN "nochunks" ELSE "similarity"
    /\ UNCHANGED <<doc, vvars, run, issues, stats, first_report>>

\* lines 394-410
NoValidChunks ==
    /\ dpc = "nochunks"
    /\ issues' = <<Issue("structure", "error", <<>>, "no_valid_chunks", <<>>, 0, 0, "")>>
    /\ stats' = [NoStats EXCEPT !.error = 1]
    /\ dpc' = "done"
    /\ UNCHANGED <<doc, vvars, run, body_chunks, chunks, first_report>>

\* line 414
CheckSemanticSimilarity ==
    /\ dpc = "similarity"
    /\ issues' = issues \o check_semantic_similarity(chunks)
    /\ dpc' = "context"
    /\ UNCHANGED <<doc, vvars, run, body_chunks, chunks, stats, first_report>>

\* line 415
CheckContextQuality ==
    /\ dpc = "context"
    /\ issues' = issues \o check_context_quality(chunks)
    /\ dpc' = "tags"
    /\ UNCHANGED <<doc, vvars, run, body_chunks, chunks, stats, first_report>>

AllTags(cs) == UNION {TagSet(cs[j]) : j \in 1..Len(cs)}

\* line 416; the iteration order of the tag sets is that of the process
CheckTagOverlap ==
    /\ dpc = "tags"
    /\ \E order \in Orders(AllTags(chunks)) :
          issues' = issues \o check_tag_overlap(chunks, order)
    /\ dpc' = "ids"
    /\ UNCHANGED <<doc, vvars, run, body_chunks, chunks, stats, first_report>>

\* line 417
CheckIdNaming ==
    /\ dpc = "ids"
    /\ issues' = issues \o check_id_naming(chunks)
    /\ dpc' = "stats"
    /\ UNCHANGED <<doc, vvars, run, body_chunks, chunks, stats, first_report>>

RECURSIVE Sum(_)
Sum(q) == IF q = <<>> THEN 0 ELSE Head(q) + Sum(Tail(q))

\* line 424: the set of category prefixes of the ids that contain ':'
CategorySet(cs) == {CategoryOf(cs[j].id) : j \in {h \in 1..Len(cs) : HasColon(cs[h].id)}}

SeverityCount(is, sev) == Len(SelectSeq(is, LAMBDA i : i.severity = sev))

\* lines 420-430; order is the iteration order of the category set
calc_stats(cs, is, order) ==
    [chunk_count |-> Len(cs),
     context_words |-> Sum([j \in 1..Len(cs) |-> Len(cs[j].context)]),
     unique_tags |-> Cardinality(AllTags(cs)),
     categories |-> SetIter(CategorySet(cs), order),
     error |-> SeverityCount(is, "error"),
     warning |-> SeverityCount(is, "warning"),
     info |-> SeverityCount(is, "info")]

\* lines 419-432
CalcStats ==
    /\ dpc = "stats"
    /\ \E order \in Orders(CategorySet(chunks)) :
          stats' = calc_stats(chunks, issues, order)
    /\ dpc' = "done"
    /\ UNCHANGED <<doc, vvars, run, body_chunks, chunks, issues, first_report>>

Report == [issues |-> issues, stats |-> stats]

\* run_diagnostics is called again on the same document text
RunAgain ==
    /\ dpc = "done"
    /\ run = 1
    /\ first_report' = Report
    /\ run' = 2
    /\ body_chunks' = <<>>
    /\ chunks' = <<>>
    /\ issues' = <<>>
    /\ stats' = NoStats
    /\ dpc' = "load"
    /\ UNCHANGED <<doc, vvars>>

NextDiagnose ==
    \/ LoadDocument
    \/ NoValidChunks
    \/ CheckSemanticSimilarity
    \/ CheckContextQuality
    \/ CheckTagOverlap
    \/ CheckIdNaming
    \/ CalcStats
    \/ RunAgain

SpecDiagnose == InitDiagnose /\ [][NextDiagnose]_vars

----------------------------------------------------------------------------
(* Properties of extract_chunks, load_document and run_diagnostics *)

\* load_document got past its early return and called extract_chunks
Extracted == dpc \notin {"load", "raised"} /\ doc.fm = "mapping" /\ doc.has_chunks

\* C4: chunk extraction yields exactly one content record per chunk id, and
\* for an id delimited by several open/close pairs the record holds the
\* content of the first pair; later pairs never replace it.
C4_FirstPairWinsInExtraction ==
    Extracted =>
        LET ms == ChunkMatches(Flatten(doc.body), 1)
            first(id) == CHOOSE j \in 1..Len(ms) :
                            ms[j].id = id /\ \A h \in 1..(j - 1) : ms[h].id # id
        IN /\ \A i, j \in 1..Len(body_chunks) :
                 i # j => body_chunks[i].id # body_chunks[j].id
           /\ Keys(body_chunks) = {ms[j].id : j \in 1..Len(ms)}
           /\ \A j \in 1..Len(body_chunks) :
                 body_chunks[j].content = ms[first(body_chunks[j].id)].content

\* the header entries load_document keeps: those with a non-empty id
KeptEntries ==
    {j \in 1..Len(doc.chunks) : "id" \in doc.chunks[j].keys /\ doc.chunks[j].id # NoId}

FirstEntry(id) ==
    CHOOSE j \in KeptEntries :
        doc.chunks[j].id = id /\ \A h \in KeptEntries : h < j => doc.chunks[h].id # id

\* C6: the canonical chunk sequence built from the header, both the list of
\* load_document and the fm_chunks map of validate_file, holds at most one
\* record per chunk id, built from the first declaration of that id.
C6_OneCanonicalRecordPerId ==
    /\ Extracted =>
          /\ \A i, j \in 1..Len(chunks) : i # j => chunks[i].id # chunks[j].id
          /\ \A j \in 1..Len(chunks) :
                LET d == doc.chunks[FirstEntry(chunks[j].id)] IN
                /\ chunks[j].context = (IF "context" \in d.keys THEN d.context ELSE <<>>)
                /\ chunks[j].tags = (IF "tags" \in d.keys THEN d.tags ELSE <<>>)
    /\ pc = "done" =>
          /\ \A i, j \in 1..Len(fm_chunks) : i # j => fm_chunks[i].id # fm_chunks[j].id
          /\ \A j \in 1..Len(fm_chunks) :
                \E h \in IdEntries :
                    /\ frontmatter.chunks[h] = fm_chunks[j].def
                    /\ \A g \in IdEntries :
                          g < h => frontmatter.chunks[g].id # fm_chunks[j].id

HeuristicCategories ==
    {"semantic_similarity", "context_quality", "tag_overlap", "id_naming"}

HeuristicIssues == SelectSeq(issues, LAMBDA i : i.category \in HeuristicCategories)

\* C9 as stated: no issue of the four heuristics has severity error; each
\* has severity warning or info.
C9_HeuristicsNeverError ==
    \A j \in 1..Len(HeuristicIssues) : HeuristicIssues[j].severity \in {"warning", "info"}

\* C9 amended: every issue of the four heuristics has severity warning or
\* info, except the empty-context issue of check_context_quality, which has
\* severity error and is emitted only for a chunk whose context has no word.
C9_OnlyEmptyContextIsError ==
    LET heuristic == HeuristicIssues IN
    \A j \in 1..Len(heuristic) :
        LET i == heuristic[j] IN
        \/ i.severity \in {"warning", "info"} /\ i.kind # "empty_context"
        \/ /\ i.severity = "error"
           /\ i.category = "context_quality"
           /\ i.kind = "empty_context"
           /\ Len(i.chunk_ids) = 1
           /\ \E h \in 1..Len(chunks) :
                 chunks[h].id = i.chunk_ids[1] /\ Len(chunks[h].context) = 0

\* the four heuristics have run and produced an error, a warning from each
\* of two other heuristics, and an info
C9_Witness ==
    /\ dpc = "done"
    /\ \E a, b, c, d \in 1..Len(issues) :
          /\ issues[a].kind = "empty_context"
          /\ issues[b].kind = "too_short"
          /\ issues[c].category = "id_naming" /\ issues[c].severity = "warning"
          /\ issues[d].severity = "info"

\* C11: for all token sets A and B, jaccard_similarity(A,B) equals
\* jaccard_similarity(B,A) and lies between 0 and 1; it is 0 when either set
\* is empty, and jaccard_similarity(A,A) is 1 for every non-empty A.
C11_JaccardIsSymmetricAndBounded ==
    dpc = "context" =>
        \A i, j \in 1..Len(chunks) :
            LET A == ChunkTokens(chunks[i])
                B == ChunkTokens(chunks[j])
                sim == jaccard_similarity(A, B)
            IN /\ RatioEq(sim, jaccard_similarity(B, A))
               /\ sim.den > 0 /\ 0 <= sim.num /\ sim.num <= sim.den
               /\ (A = {} \/ B = {}) => sim.num = 0
               /\ A # {} => RatioEq(jaccard_similarity(A, A), Ratio(1, 1))

\* check_semantic_similarity has compared a chunk without tokens, and two
\* chunks whose token sets overlap without being equal
C11_Witness ==
    /\ dpc = "context"
    /\ \E h, i, j \in 1..Len(chunks) :
          /\ ChunkTokens(chunks[h]) = {}
          /\ ChunkTokens(chunks[i]) \cap ChunkTokens(chunks[j]) # {}
          /\ Cardinality(ChunkTokens(chunks[i])) < Cardinality(ChunkTokens(chunks[j]))

\* C10: two runs of run_diagnostics on the same document text return
\* identical reports, the order of every list in them included.
C10_RunsReturnIdenticalReports ==
    (run = 2 /\ dpc = "done") => Report = first_report

\* the document has no canonical chunk: no header, a header without a
\* 'chunks' key, or no header entry with a non-empty id
ZeroCanonicalChunks ==
    \/ doc.fm # "mapping"
    \/ ~doc.has_chunks
    \/ KeptEntries = {}

HeuristicPositions == {"similarity", "context", "tags", "ids", "stats"}

\* C12: when the document yields zero canonical chunks, run_diagnostics runs
\* none of the four heuristics and returns exactly one issue, of category
\* structure and severity error with no chunk id, and statistics with
\* chunk_count 0, avg_context_words 0, unique_tags 0 and no category.
C12_NoChunksShortCircuits ==
    ZeroCanonicalChunks =>
        /\ dpc \notin HeuristicPositions
        /\ dpc = "done" =>
              /\ Len(issues) = 1
              /\ issues[1].category = "structure"
              /\ issues[1].severity = "error"
              /\ issues[1].chunk_ids = <<>>
              /\ stats.chunk_count = 0
              /\ stats.context_words = 0
              /\ stats.unique_tags = 0
              /\ stats.categories = <<>>

\* a run has returned on a header whose entries all lack a non-empty id
C12_Witness ==
    /\ dpc = "done"
    /\ doc.fm = "mapping"
    /\ doc.has_chunks
    /\ Len(doc.chunks) > 1
    /\ KeptEntries = {}
    /\ \E j \in 1..Len(doc.chunks) : "id" \in doc.chunks[j].keys

\* C13: validate_file and run_diagnostics are total over document text:
\* whatever the header parses to, whatever the value of 'chunks' and of its
\* entries, the run returns its issues and raises no exception.
C13_RunsNeverRaise == pc # "raised" /\ dpc # "raised"

\* the nesting errors and the unmatched-close errors of a scanner that
\* takes the markers ms in reading order, depth markers being open
RECURSIVE LexicalNested(_, _)
LexicalNested(ms, depth) ==
    IF ms = <<>> THEN 0
    ELSE IF IsOpen(Head(ms))
         THEN (IF depth > 0 THEN 1 ELSE 0) + LexicalNested(Tail(ms), depth + 1)
         ELSE LexicalNested(Tail(ms), IF depth > 0 THEN depth - 1 ELSE 0)

RECURSIVE LexicalUnmatched(_, _)
LexicalUnmatched(ms, depth) ==
    IF ms = <<>> THEN 0
    ELSE IF IsOpen(Head(ms))
         THEN LexicalUnmatched(Tail(ms), depth + 1)
         ELSE (IF depth = 0 THEN 1 ELSE 0)
              + LexicalUnmatched(Tail(ms), IF depth > 0 THEN depth - 1 ELSE 0)

\* C14: within one line the scanner applies the open and close transitions
\* in the left-to-right order of the markers, so that the nesting errors
\* and the unmatched-close errors of a body are those of its markers taken
\* in reading order: two sibling pairs on one line give no nesting error,
\* a line that starts with a close marker on an empty stack gives an
\* unmatched-close error.
C14_MarkersOfALineInLexicalOrder ==
    pc = "done" =>
        /\ Count(errors, LAMBDA e : e.kind = "nested")
              = LexicalNested(BodyMarkerSeq, 0)
        /\ Count(errors, LAMBDA e : e.kind = "unmatched_close")
              = LexicalUnmatched(BodyMarkerSeq, 0)

\* C15: a string dependency that equals the id of a chunk of the document,
\* declared earlier or later in the header than the entry that lists it, or
\* met only in the body, gets no dependency warning.
C15_DependencyOnAnyChunkIdIsSilent ==
    pc = "done" =>
        \A j \in 1..Len(errors) :
            errors[j].kind = "dep_not_found" =>
                errors[j].ref \notin (DeclaredIds \cup BodyIds)

\* C16: a header entry with an id gets one missing-context warning when its
\* 'context' field is absent and when it is present but empty, and none when
\* the field is present and not empty.
C16_EmptyContextIsReportedMissing ==
    pc = "done" =>
        \A j \in IdEntries :
            LET chunk_def == frontmatter.chunks[j]
                warnings == Count(errors, LAMBDA e : e.kind = "missing_context"
                                                     /\ e.severity = "warning"
                                                     /\ e.line = j + 1)
            IN warnings = (IF \/ "context" \notin chunk_def.keys
                              \/ chunk_def.context = <<>>
                           THEN 1 ELSE 0)

\* check_semantic_similarity has just returned: issues holds its output
SimilarityDone == dpc = "context"

SimilarityIssues == SelectSeq(issues, LAMBDA i : i.category = "semantic_similarity")

\* the pairs (i, j), i before j, whose token sets are both non-empty and
\* have 5 * |A \cap B| >= 3 * |A \cup B|, toks[i] being the tokens of chunk i
SimilarPairs(toks) ==
    {p \in (1..Len(toks)) \X (1..Len(toks)) :
        /\ p[1] < p[2]
        /\ toks[p[1]] # {}
        /\ toks[p[2]] # {}
        /\ 5 * Cardinality(toks[p[1]] \cap toks[p[2]])
             >= 3 * Cardinality(toks[p[1]] \cup toks[p[2]])}

PairBefore(p, q) == p[1] < q[1] \/ (p[1] = q[1] /\ p[2] < q[2])

\* the n-th pair of the set ps in the order of the comparisons
NthPair(ps, n) ==
    CHOOSE p \in ps : Cardinality({q \in ps : PairBefore(q, p)}) = n - 1

AllChunkTokens == [j \in 1..Len(chunks) |-> ChunkTokens(chunks[j])]

\* C17: check_semantic_similarity compares each unordered pair of chunks
\* once, in input order, and emits a warning for a pair exactly when both
\* token sets are non-empty and 5 * |A \cap B| >= 3 * |A \cup B|; the warning
\* names the two ids in input order and lists the first 10, at most, of the
\* shared tokens in ascending order.
C17_SimilarPairsAreWarned ==
    SimilarityDone =>
        LET toks == AllChunkTokens
            similar == SimilarPairs(toks)
            warned == SimilarityIssues
        IN /\ Len(warned) = Cardinality(similar)
           /\ \A n \in 1..Len(warned) :
                 LET issue == warned[n]
                     p == NthPair(similar, n)
                     shared == toks[p[1]] \cap toks[p[2]]
                     listed == issue.words
                 IN /\ issue.severity = "warning"
                    /\ issue.chunk_ids = <<chunks[p[1]].id, chunks[p[2]].id>>
                    /\ Len(listed) = (IF Cardinality(shared) < 10
                                      THEN Cardinality(shared) ELSE 10)
                    /\ \A h \in 1..Len(listed) : listed[h] \in shared
                    /\ \A g, h \in 1..Len(listed) :
                          g < h => StrLess(listed[g], listed[h])
                    /\ \A w \in shared \ Range(listed) :
                          \A h \in 1..Len(listed) : StrLess(listed[h], w)

\* three chunks have been compared: one pair is exactly at the threshold
\* and shares more than 10 tokens, another pair is below the threshold
C17_Witness ==
    /\ dpc = "context"
    /\ Len(chunks) = 3
    /\ Cardinality(SimilarPairs(AllChunkTokens)) < 3
    /\ \E n \in 1..Len(SimilarityIssues) :
          /\ 5 * SimilarityIssues[n].n1 = 3 * SimilarityIssues[n].n2
          /\ SimilarityIssues[n].n1 > 10
          /\ Len(SimilarityIssues[n].words) = 10
    /\ \E i, j \in 1..Len(chunks) :
          /\ i < j
          /\ AllChunkTokens[i] \cap AllChunkTokens[j] # {}
          /\ <<i, j>> \notin SimilarPairs(AllChunkTokens)

ContextDone == dpc \in {"tags", "ids", "stats", "done"}

LengthKinds == {"empty_context", "too_short", "too_verbose"}

LengthIssues ==
    SelectSeq(issues, LAMBDA i : i.category = "context_quality" /\ i.kind \in LengthKinds)

\* the verdict the word count of a context calls for
LengthVerdict(chunk) ==
    LET n == Len(chunk.context) IN
    IF n = 0 THEN "empty_context"
    ELSE IF n <= 7 THEN "too_short"
    ELSE IF n <= 50 THEN "none"
    ELSE "too_verbose"

SeverityOfVerdict(kind) ==
    CASE kind = "empty_context" -> "error"
      [] kind = "too_short"     -> "warning"
      [] kind = "too_verbose"   -> "info"

TagsDone == dpc \in {"ids", "stats", "done"}

UbiquityIssues == SelectSeq(issues, LAMBDA i : i.kind = "ubiquitous_tags")

\* the tags that occur on at least 80% of the chunks: 5 * count >= 4 * n
UbiquitousSet ==
    {t \in AllTags(chunks) :
        5 * Cardinality({j \in 1..Len(chunks) : t \in Range(chunks[j].tags)})
          >= 4 * Len(chunks)}

UbiquityIssueIsRight ==
    /\ Len(UbiquityIssues) = 1
    /\ UbiquityIssues[1].category = "tag_overlap"
    /\ UbiquityIssues[1].severity = "info"
    /\ Range(UbiquityIssues[1].words) = UbiquitousSet
    /\ Len(UbiquityIssues[1].words) = Cardinality(UbiquitousSet)

\* C19: for a chunk list of any size n >= 1, check_tag_overlap
\* emits exactly one info issue listing the ubiquitous tags when two or more
\* distinct tags each occur on at least 80% of the chunks, and no such issue
\* when fewer than two do.
C19_UbiquitousTagsAtAnySize ==
    TagsDone =>
        IF Cardinality(UbiquitousSet) >= 2
        THEN UbiquityIssueIsRight
        ELSE UbiquityIssues = <<>>

\* what does hold: the same for the lists of two or more chunks, and no
\* tag-overlap issue at all for a single chunk (line 274)
UbiquitousTagsOfTwoOrMoreChunks ==
    TagsDone =>
        IF Len(chunks) >= 2 /\ Cardinality(UbiquitousSet) >= 2
        THEN UbiquityIssueIsRight
        ELSE /\ UbiquityIssues = <<>>
             /\ Len(chunks) = 1 =>
                   \A j \in 1..Len(issues) : issues[j].category # "tag_overlap"

IdenticalTagWarnings == SelectSeq(issues, LAMBDA i : i.kind = "identical_tags")

ChunksWithTags(ts) == SelectSeq(chunks, LAMBDA c : Range(c.tags) = ts)

\* the non-empty tag sets that more than one chunk has
SharedTagSets ==
    {ts \in {Range(chunks[j].tags) : j \in 1..Len(chunks)} :
        ts # {} /\ Len(ChunksWithTags(ts)) > 1}

\* C20: check_tag_overlap emits exactly one warning for each non-empty tag
\* set that more than one chunk has, its chunk_ids being all and only the
\* chunks with that tag set; an empty tag set and a tag set of a single
\* chunk give no such warning.
C20_OneWarningPerSharedTagSet ==
    TagsDone =>
        /\ Len(IdenticalTagWarnings) = Cardinality(SharedTagSets)
        /\ \A ts \in SharedTagSets :
              \E n \in 1..Len(IdenticalTagWarnings) :
                  /\ Range(IdenticalTagWarnings[n].words) = ts
                  /\ IdenticalTagWarnings[n].severity = "warning"
                  /\ IdenticalTagWarnings[n].chunk_ids = ChunkIds(ChunksWithTags(ts))

\* check_id_naming has run on the chunks of the current run
NamingDone == dpc \in {"stats", "done"}

SingletonInfos == SelectSeq(issues, LAMBDA i : i.category = "id_naming" /\ i.severity = "info")

\* the ids of the chunks that conform to the category:topic-name grammar
ConformingIds == {chunks[j].id : j \in {h \in 1..Len(chunks) : ID_PATTERN_match(chunks[h].id)}}

\* the number of chunks with a conforming id of the category
MembersOf(cat) ==
    Cardinality({j \in 1..Len(chunks) :
                    ID_PATTERN_match(chunks[j].id) /\ CategoryOf(chunks[j].id) = cat})

ConformingCategories == {CategoryOf(id) : id \in ConformingIds}

SingletonCategories == {cat \in ConformingCategories : MembersOf(cat) = 1}

\* C21: check_id_naming tallies category prefixes over the conforming ids
\* only, and emits the singleton-category info issue exactly when there is
\* more than one category, at least one with exactly one member and at least
\* one with more; the chunk_ids of the issue are exactly the conforming ids
\* whose category has one member, never an id that fails the grammar.
C21_SingletonIssueNamesConformingIds ==
    NamingDone =>
        IF /\ Cardinality(ConformingCategories) > 1
           /\ SingletonCategories # {}
           /\ SingletonCategories # ConformingCategories
        THEN /\ Len(SingletonInfos) = 1
             /\ Range(SingletonInfos[1].words) = SingletonCategories
             /\ Range(SingletonInfos[1].chunk_ids)
                    = {id \in ConformingIds : CategoryOf(id) \in SingletonCategories}
        ELSE SingletonInfos = <<>>

\* the part of C21 that the code satisfies: when the issue is emitted, and
\* with the ids of the issue restricted to the conforming ones
SingletonIssueOverConformingIds ==
    NamingDone =>
        IF /\ Cardinality(ConformingCategories) > 1
           /\ SingletonCategories # {}
           /\ SingletonCategories # ConformingCategories
        THEN /\ Len(SingletonInfos) = 1
             /\ Range(SingletonInfos[1].words) = SingletonCategories
             /\ Range(SingletonInfos[1].chunk_ids) \cap ConformingIds
                    = {id \in ConformingIds : CategoryOf(id) \in SingletonCategories}
        ELSE SingletonInfos = <<>>

\* the scanner of validate_file is running or has finished
Scanning == pc \in {"open", "close", "reconcile", "done"}

\* the open markers of body line j, each with its line number
OpensOfLine(j) ==
    [m \in 1..Len(OpenMatches(lines[j])) |->
        [id |-> OpenMatches(lines[j])[m].id, line |-> fm_end_line + j]]

\* the open markers the scanner has processed, in the order it took them
ProcessedOpens ==
    Flatten([j \in 1..(ln - 1) |-> OpensOfLine(j)])
    \o (IF ln > Len(lines) THEN <<>>
        ELSE IF pc = "open" THEN FirstN(OpensOfLine(ln), mi - 1)
        ELSE OpensOfLine(ln))

\* the position of the first processed open marker that carries the id
FirstOccurrence(opens, id) ==
    CHOOSE h \in 1..Len(opens) :
        opens[h].id = id /\ \A g \in 1..(h - 1) : opens[g].id # id

DuplicateInBody == SelectSeq(errors, LAMBDA e : e.kind = "dup_body")

\* C22: every open marker whose id an earlier open marker of the body
\* carried, closed or still open, yields exactly one duplicate-id error that
\* cites the line of the first occurrence of the id; the first occurrence
\* yields none, and the recorded first-occurrence line of an id never changes.
C22_DuplicateInBodyCitesFirstLine ==
    Scanning =>
        LET opens == ProcessedOpens
            later == SelectSeq([n \in 1..Len(opens) |-> [pos |-> n, id |-> opens[n].id]],
                               LAMBDA p : FirstOccurrence(opens, p.id) < p.pos)
            dups == DuplicateInBody
        IN /\ Len(dups) = Len(later)
           /\ \A n \in 1..Len(later) :
                 /\ dups[n].id = later[n].id
                 /\ dups[n].severity = "error"
                 /\ dups[n].line = opens[later[n].pos].line
                 /\ dups[n].refLine = opens[FirstOccurrence(opens, later[n].id)].line
           /\ Keys(body_chunk_ids) = {opens[n].id : n \in 1..Len(opens)}
           /\ \A n \in 1..Len(body_chunk_ids) :
                 body_chunk_ids[n].line
                     = opens[FirstOccurrence(opens, body_chunk_ids[n].id)].line

\* an id has occurred three times on three lines: the second occurrence
\* came after the first was closed, the third while the second was open
C22_Witness ==
    /\ pc = "done"
    /\ \E a, b \in 1..Len(errors) :
          /\ errors[a].kind = "dup_body" /\ errors[b].kind = "dup_body"
          /\ errors[a].id = errors[b].id
          /\ errors[a].refLine < errors[a].line
          /\ errors[a].line < errors[b].line
          /\ errors[a].refLine = errors[b].refLine
          /\ ~\E c \in 1..Len(errors) :
                 errors[c].kind = "nested" /\ errors[c].line = errors[a].line
          /\ \E c \in 1..Len(errors) :
                 /\ errors[c].kind = "nested" /\ errors[c].line = errors[b].line
                 /\ errors[c].ref = errors[b].id

\* the number of close markers the scanner has processed
ProcessedCloses ==
    Sum([j \in 1..(ln - 1) |-> Len(CloseMatches(lines[j]))])
    + (IF ln <= Len(lines) /\ pc = "close" THEN mi - 1 ELSE 0)

UnmatchedCloses == SelectSeq(errors, LAMBDA e : e.kind = "unmatched_close")

\* the scanner is about to take an open marker, a close marker
OpenStep == pc = "open" /\ ln <= Len(lines) /\ mi <= Len(OpenMatches(lines[ln]))

CloseStep == pc = "close" /\ mi <= Len(CloseMatches(lines[ln]))

\* opens = pops + entries on the stack, closes = pops + unmatched-close
\* errors, and at end of input one unclosed error per entry on the stack
MarkerAccounting ==
    LET pops == ProcessedCloses - Len(UnmatchedCloses) IN
    /\ pops >= 0
    /\ Len(ProcessedOpens) = pops + Len(open_chunks)
    /\ IF pc \in {"reconcile", "done"}
       THEN /\ Len(Unclosed) = Len(open_chunks)
            /\ Len(ProcessedOpens) = pops + Len(Unclosed)
       ELSE Unclosed = <<>>

\* C23: marker accounting of the scanner is conserved: every open marker is
\* pushed exactly once and later popped by one close marker or reported as
\* unclosed once; every close marker pops exactly one open marker or yields
\* one unmatched-close error and leaves the stack empty; so opens = pops +
\* unclosed errors, closes = pops + unmatched-close errors, and the stack
\* depth is never negative.
C23_MarkerAccountingIsConserved ==
    [][ /\ OpenStep =>
              /\ open_chunks' = Append(open_chunks,
                                       [id |-> OpenMatches(lines[ln])[mi].id, line |-> LineNo])
              /\ UnmatchedCloses' = UnmatchedCloses
        /\ CloseStep =>
              IF open_chunks # <<>>
              THEN /\ open_chunks' = ButLast(open_chunks)
                   /\ UnmatchedCloses' = UnmatchedCloses
              ELSE /\ open_chunks' = <<>>
                   /\ UnmatchedCloses' =
                          Append(UnmatchedCloses,
                                 ValidationError(LineNo, "unmatched_close", "error",
                                                 NoId, <<>>, 0))
        /\ (Scanning /\ ~OpenStep /\ ~CloseStep) =>
              /\ open_chunks' = open_chunks
              /\ UnmatchedCloses' = UnmatchedCloses
        /\ Scanning' => MarkerAccounting' ]_vars

\* a scan has finished in which one marker was popped, one close marker
\* was unmatched and one open marker was left unclosed
C23_Witness ==
    /\ pc = "done"
    /\ UnmatchedCloses # <<>>
    /\ Unclosed # <<>>
    /\ ProcessedCloses > Len(UnmatchedCloses)
    /\ Len(ProcessedOpens) > Len(Unclosed)

====
